---- MODULE Spec2Model ----
(***************************************************************************)
(* A model of crates/nostr-sdk/src/client.rs: the Client facade over a     *)
(* RelayPool, in its two builds.  The source compiles exactly one of two   *)
(* impl blocks: the async surface (cfg(not(feature = "blocking")), lines   *)
(* 36-100) and the blocking surface (cfg(feature = "blocking"), lines      *)
(* 102-172).  The model runs one Client of each build side by side: every  *)
(* variable that belongs to a Client is a function over Surfaces, every    *)
(* application call is applied to both Clients with the same arguments,    *)
(* and the collaborators (relay pool, signer, callback) answer both in the *)
(* same way.                                                               *)
(***************************************************************************)
EXTENDS Integers, Sequences, FiniteSets, TLC

(***************************************************************************)
(* Bounds of the model.                                                    *)
(***************************************************************************)
MaxInitLen == 3      \* longest contact list handed to Client::new
MaxContactOps == 3   \* add_contact / remove_contact calls recorded per run
MaxPublish == 3      \* notifications the pool publishes per run
MaxClose == 1        \* times the pool tears its notification sender down
ChanCap == 2         \* capacity of the pool's broadcast channel
MaxSessionContactOps == 2   \* add_contact / remove_contact calls of a session

(***************************************************************************)
(* Input domains.                                                          *)
(***************************************************************************)
Surfaces == {"async", "blocking"}
Contacts == {"A", "B", "C"}
Identities == {"k1", "k2"}

Range(seq) == {seq[i] : i \in DOMAIN seq}

\* All sequences over S of length at most n.
SeqsUpTo(S, n) == UNION {[1..k -> S] : k \in 0..n}

(***************************************************************************)
(* Vec<Contact> primitives used by the contact operations.                 *)
(***************************************************************************)
\* Vec::contains: some element equals c.
contains(cs, c) == \E i \in DOMAIN cs : cs[i] = c

\* Vec::push: append at the end.
push(cs, c) == Append(cs, c)

\* Vec::retain(|x| x != c): keep, in order, the elements that differ from c.
retain(cs, c) == SelectSeq(cs, LAMBDA x : x # c)

(***************************************************************************)
(* RUNTIME.block_on(future): the shared scheduler drives the future to     *)
(* completion and hands back its output.  Called on a thread that is       *)
(* already inside the scheduler (depth > 0) it never runs the future.      *)
(***************************************************************************)
block_on(depth, output) ==
    IF depth = 0 THEN [ran |-> TRUE, out |-> output] ELSE [ran |-> FALSE]

(***************************************************************************)
(* Contact list management.                                                *)
(***************************************************************************)
\* Client::new, field `contacts`: contacts.unwrap_or_default().
None == [some |-> FALSE]
Some(v) == [some |-> TRUE, val |-> v]

new_contacts(arg) == IF arg.some THEN arg.val ELSE <<>>

\* add_contact without the membership test.
add_contact_unchecked(cs, c) == push(cs, c)

\* add_contact inserting a new contact at the front.
add_contact_front(cs, c) == IF ~contains(cs, c) THEN <<c>> \o cs ELSE cs

\* async add_contact, lines 38-42.
add_contact(cs, c) == IF ~contains(cs, c) THEN push(cs, c) ELSE cs

\* remove_contact dropping the last element when nothing matches.
remove_contact_droplast(cs, c) ==
    IF contains(cs, c) THEN retain(cs, c)
    ELSE IF cs = <<>> THEN cs ELSE SubSeq(cs, 1, Len(cs) - 1)

\* remove_contact taking out only the first element equal to c.
remove_contact_first(cs, c) ==
    IF contains(cs, c)
    THEN LET i == CHOOSE k \in DOMAIN cs : cs[k] = c /\ \A j \in 1..(k - 1) : cs[j] # c
         IN  SubSeq(cs, 1, i - 1) \o SubSeq(cs, i + 1, Len(cs))
    ELSE cs

\* async remove_contact, lines 44-48.
remove_contact(cs, c) == IF contains(cs, c) THEN retain(cs, c) ELSE cs

\* blocking add_contact, lines 104-110: the body runs inside block_on.
blocking_add_contact(depth, cs, c) ==
    LET r == block_on(depth, IF ~contains(cs, c) THEN push(cs, c) ELSE cs)
    IN  IF r.ran THEN r.out ELSE cs

\* blocking remove_contact, lines 112-118: the body runs inside block_on.
blocking_remove_contact(depth, cs, c) ==
    LET r == block_on(depth, IF contains(cs, c) THEN retain(cs, c) ELSE cs)
    IN  IF r.ran THEN r.out ELSE cs

(***************************************************************************)
(* Results, and the collaborators of event deletion.                       *)
(***************************************************************************)
\* The value of type (): a call that returns nothing returns it.
Unit == [unit |-> TRUE]
Ok(v) == [ok |-> TRUE, val |-> v]
Err(e) == [ok |-> FALSE, err |-> e]

\* What a relay-pool operation answers, and what the signer answers.
PoolResults == {Ok(Unit), Err("ProtocolError")}
SignOutcomes == {"signed", "SigningError"}

\* A text is a sequence of characters.
Rep(n, ch) == [i \in 1..n |-> ch]

HexLower == <<"0", "1", "2", "3", "4", "5", "6", "7",
              "8", "9", "a", "b", "c", "d", "e", "f">>
HexUpper == <<"0", "1", "2", "3", "4", "5", "6", "7",
              "8", "9", "A", "B", "C", "D", "E", "F">>

\* The value of each hex digit, either case.
HexDigit == [ch \in Range(HexLower) \cup Range(HexUpper) |->
                (CHOOSE i \in DOMAIN HexLower : HexLower[i] = ch \/ HexUpper[i] = ch) - 1]

HexChars == DOMAIN HexDigit

is_hex(ch) == ch \in HexChars

hex_val(ch) == HexDigit[ch]

\* sha256::Hash::LEN: a digest is 32 bytes.
HashLen == 32

\* sha256::Hash::from_str (bitcoin_hashes): an odd length, then a length
\* other than 2 * LEN, then a character that is no hex digit, is an error;
\* otherwise the bytes, two digits each.
Hash_from_str(text) ==
    IF Len(text) % 2 = 1 THEN Err("OddLengthString")
    ELSE IF Len(text) \div 2 # HashLen THEN Err("InvalidLength")
    ELSE IF \E i \in DOMAIN text : ~is_hex(text[i]) THEN Err("InvalidChar")
    ELSE Ok([i \in 1..HashLen |->
                16 * hex_val(text[2 * i - 1]) + hex_val(text[2 * i])])

\* Event::delete(keys, ids, reason) (nostr-sdk-base): a deletion event
\* signed by keys that references ids, or the signer's error.
Event_delete(k, ids, reason, sign) ==
    IF sign = "signed"
    THEN Ok([kind |-> "EventDeletion", pubkey |-> k, ids |-> ids, reason |-> reason])
    ELSE Err(sign)

\* RelayPool::send_event(event), answering r: the pool after the call.
RelayPool_send_event(p, event, r) ==
    IF r.ok THEN [p EXCEPT !.sent = @ \cup {event}] ELSE p

\* RelayPool::add_relay(url, proxy), answering r: a new relay starts out
\* disconnected.
RelayPool_add_relay(p, url, proxy, r) ==
    IF r.ok /\ p.relays[url] = "absent"
    THEN [p EXCEPT !.relays[url] = "disconnected"] ELSE p

\* RelayPool::remove_relay(url), answering r.
RelayPool_remove_relay(p, url, r) ==
    IF r.ok THEN [p EXCEPT !.relays[url] = "absent"] ELSE p

\* RelayPool::connect_relay(url), answering r: a known relay receives a
\* connect attempt, which succeeded when r is Ok.
RelayPool_connect_relay(p, url, r) ==
    IF p.relays[url] = "absent" THEN p
    ELSE [p EXCEPT !.attempted = @ \cup {url},
                   !.relays[url] = IF r.ok THEN "connected" ELSE @]

\* RelayPool::disconnect_relay(url), answering r.
RelayPool_disconnect_relay(p, url, r) ==
    IF r.ok /\ p.relays[url] # "absent"
    THEN [p EXCEPT !.relays[url] = "disconnected"] ELSE p

\* RelayPool::connect_all(), answering r: every known relay that is not
\* connected receives a connect attempt; they succeeded when r is Ok.
RelayPool_connect_all(p, r) ==
    [p EXCEPT !.attempted = @ \cup {u \in DOMAIN p.relays : p.relays[u] = "disconnected"},
              !.relays = [u \in DOMAIN @ |->
                             IF r.ok /\ @[u] = "disconnected" THEN "connected" ELSE @[u]]]

\* RelayPool::subscribe(filters), answering r.
RelayPool_subscribe(p, filters, r) ==
    IF r.ok THEN [p EXCEPT !.filters = filters] ELSE p

\* RelayPool::notifications(): a fresh receiver of the pool's broadcast
\* channel, positioned after everything published so far.  start is the
\* position it was created at, next the position it reads next, end the
\* position at which its sender was torn down (-1 while the sender lives).
RelayPool_notifications(pub) == [start |-> Len(pub), next |-> Len(pub), end |-> -1]

\* No receiver.
NoSub == [start |-> -1, next |-> -1, end |-> -1]

PoolCall(fn, arg) == [fn |-> fn, param |-> arg]

\* The outcome of an application call: the pool after it, what it returned,
\* and the relay-pool calls it made.
Outcome(p, r, cs) == [pool |-> p, ret |-> r, calls |-> cs]

\* What a blocking call leaves when its block_on was entered inside the
\* scheduler: the body never ran.
NotRun(p) == Outcome(p, [stuck |-> TRUE], <<>>)

(***************************************************************************)
(* Relay pool control surface: each call is handed to the pool.            *)
(***************************************************************************)
\* async add_relay, lines 54-56.
add_relay(p, url, proxy, r) ==
    Outcome(RelayPool_add_relay(p, url, proxy, r), r,
            <<PoolCall("add_relay", [url |-> url, proxy |-> proxy])>>)

\* remove_relay asking the pool a second time when it answers an error.
remove_relay_retry(p, url, r) ==
    Outcome(RelayPool_remove_relay(p, url, r), r,
            IF r.ok THEN <<PoolCall("remove_relay", [url |-> url])>>
            ELSE <<PoolCall("remove_relay", [url |-> url]),
                   PoolCall("remove_relay", [url |-> url])>>)

\* async remove_relay, lines 58-60.
remove_relay(p, url, r) ==
    Outcome(RelayPool_remove_relay(p, url, r), r,
            <<PoolCall("remove_relay", [url |-> url])>>)

\* async connect_relay, lines 62-64.
connect_relay(p, url, r) ==
    Outcome(RelayPool_connect_relay(p, url, r), r,
            <<PoolCall("connect_relay", [url |-> url])>>)

\* async disconnect_relay, lines 66-68.
disconnect_relay(p, url, r) ==
    Outcome(RelayPool_disconnect_relay(p, url, r), r,
            <<PoolCall("disconnect_relay", [url |-> url])>>)

\* connect_all asking the pool to connect each relay it knows, one by one.
RECURSIVE connect_each(_, _, _)
connect_each(p, urls, r) ==
    IF urls = {} THEN Outcome(p, r, <<>>)
    ELSE LET u == CHOOSE x \in urls : TRUE
             rest == connect_each(RelayPool_connect_relay(p, u, r), urls \ {u}, r)
         IN  [rest EXCEPT !.calls = <<PoolCall("connect_relay", [url |-> u])>> \o @]

connect_all_each(p, r) ==
    connect_each(p, {u \in DOMAIN p.relays : p.relays[u] # "absent"}, r)

\* async connect_all, lines 71-73.
connect_all(p, r) ==
    Outcome(RelayPool_connect_all(p, r), r, <<PoolCall("connect_all", Unit)>>)

\* async subscribe, lines 75-77.
subscribe(p, filters, r) ==
    Outcome(RelayPool_subscribe(p, filters, r), r,
            <<PoolCall("subscribe", [filters |-> filters])>>)

\* blocking add_relay, lines 124-126.
blocking_add_relay(depth, p, url, proxy, r) ==
    LET b == block_on(depth,
                 Outcome(RelayPool_add_relay(p, url, proxy, r), r,
                         <<PoolCall("add_relay", [url |-> url, proxy |-> proxy])>>))
    IN  IF b.ran THEN b.out ELSE NotRun(p)

\* blocking remove_relay, lines 128-130.
blocking_remove_relay(depth, p, url, r) ==
    LET b == block_on(depth,
                 Outcome(RelayPool_remove_relay(p, url, r), r,
                         <<PoolCall("remove_relay", [url |-> url])>>))
    IN  IF b.ran THEN b.out ELSE NotRun(p)

\* blocking connect_relay, lines 132-134.
blocking_connect_relay(depth, p, url, r) ==
    LET b == block_on(depth,
                 Outcome(RelayPool_connect_relay(p, url, r), r,
                         <<PoolCall("connect_relay", [url |-> url])>>))
    IN  IF b.ran THEN b.out ELSE NotRun(p)

\* blocking disconnect_relay, lines 136-138.
blocking_disconnect_relay(depth, p, url, r) ==
    LET b == block_on(depth,
                 Outcome(RelayPool_disconnect_relay(p, url, r), r,
                         <<PoolCall("disconnect_relay", [url |-> url])>>))
    IN  IF b.ran THEN b.out ELSE NotRun(p)

\* blocking connect_all, lines 141-143.
blocking_connect_all(depth, p, r) ==
    LET b == block_on(depth,
                 Outcome(RelayPool_connect_all(p, r), r,
                         <<PoolCall("connect_all", Unit)>>))
    IN  IF b.ran THEN b.out ELSE NotRun(p)

\* blocking subscribe, lines 145-147.
blocking_subscribe(depth, p, filters, r) ==
    LET b == block_on(depth,
                 Outcome(RelayPool_subscribe(p, filters, r), r,
                         <<PoolCall("subscribe", [filters |-> filters])>>))
    IN  IF b.ran THEN b.out ELSE NotRun(p)

(***************************************************************************)
(* Event sending and deletion.                                             *)
(***************************************************************************)
\* async send_event, lines 79-81.
send_event(p, event, r) ==
    Outcome(RelayPool_send_event(p, event, r), r, <<PoolCall("send_event", event)>>)

\* blocking send_event, lines 149-151.
blocking_send_event(depth, p, event, r) ==
    LET b == block_on(depth, Outcome(RelayPool_send_event(p, event, r), r,
                                     <<PoolCall("send_event", event)>>))
    IN  IF b.ran THEN b.out ELSE NotRun(p)

\* delete_event that sends a deletion of the all-zero id when the text does
\* not parse.
delete_event_unwrap_or_default(k, p, text, sign, r) ==
    LET h == Hash_from_str(text)
        id == IF h.ok THEN h.val ELSE [i \in 1..HashLen |-> 0]
        e == Event_delete(k, <<id>>, None, sign)
    IN  IF ~e.ok THEN Outcome(p, Err(e.err), <<>>)
        ELSE send_event(p, e.val, r)

\* delete_event that discards what send_event returned.
delete_event_swallow(k, p, text, sign, r) ==
    LET h == Hash_from_str(text)
    IN  IF ~h.ok THEN Outcome(p, Err(h.err), <<>>)
        ELSE LET e == Event_delete(k, <<h.val>>, None, sign)
             IN  IF ~e.ok THEN Outcome(p, Err(e.err), <<>>)
                 ELSE [send_event(p, e.val, r) EXCEPT !.ret = Ok(Unit)]

\* async delete_event, lines 83-86: each `?` returns the error at once.
delete_event(k, p, text, sign, r) ==
    LET h == Hash_from_str(text)
    IN  IF ~h.ok THEN Outcome(p, Err(h.err), <<>>)
        ELSE LET e == Event_delete(k, <<h.val>>, None, sign)
             IN  IF ~e.ok THEN Outcome(p, Err(e.err), <<>>)
                 ELSE send_event(p, e.val, r)

\* blocking delete_event, lines 153-156: as the async one, through the
\* blocking send_event.
blocking_delete_event(depth, k, p, text, sign, r) ==
    LET h == Hash_from_str(text)
    IN  IF ~h.ok THEN Outcome(p, Err(h.err), <<>>)
        ELSE LET e == Event_delete(k, <<h.val>>, None, sign)
             IN  IF ~e.ok THEN Outcome(p, Err(e.err), <<>>)
                 ELSE blocking_send_event(depth, p, e.val, r)

(***************************************************************************)
(* Notification delivery.                                                  *)
(***************************************************************************)
NotificationValues == {"n1", "n2"}

\* The receivers the application takes with notifications(): a first and a
\* second one.
Receivers == {1, 2}

\* What the callback answers for a notification.
CallbackResults == {Ok(Unit), Err("E1"), Err("E2")}

\* What a block_on entered inside the scheduler does to its thread.
NestedOutcomes == {"panicked", "deadlocked"}

\* The call has not returned.
Pending == [pending |-> TRUE]

\* The position just after the last notification a receiver can still get.
tail_of(sub, pub) == IF sub.end = -1 THEN Len(pub) ELSE sub.end

\* broadcast::Receiver::recv: Lagged(n) when the channel has overwritten
\* the n oldest notifications the receiver had not read (the receiver then
\* stands at the oldest retained one); else the next notification; else
\* Closed when the sender is gone; else it waits.
recv(sub, pub) ==
    LET tail == tail_of(sub, pub)
    IN  IF sub.next < tail - ChanCap
        THEN [kind |-> "Lagged", skipped |-> tail - ChanCap - sub.next,
              sub |-> [sub EXCEPT !.next = tail - ChanCap]]
        ELSE IF sub.next < tail
        THEN [kind |-> "Ok", pos |-> sub.next + 1, value |-> pub[sub.next + 1],
              sub |-> [sub EXCEPT !.next = @ + 1]]
        ELSE IF sub.end # -1
        THEN [kind |-> "Closed", sub |-> sub]
        ELSE [kind |-> "Wait", sub |-> sub]

\* A handle_notifications call that has not been made.
HnIdle == [pc |-> "idle", sub |-> NoSub, result |-> Pending]

\* One callback invocation: the notification (its publish position and its
\* value) and what the callback answered.
Invocation(r, out) == [pos |-> r.pos, value |-> r.value, out |-> out]

\* notifications handing out a receiver that replays the backlog.
notifications_replay(pub) == [start |-> 0, next |-> 0, end |-> -1]

\* async notifications, lines 50-52.
notifications(pub) == RelayPool_notifications(pub)

\* blocking notifications, lines 120-122.
blocking_notifications(depth, pub) == block_on(depth, RelayPool_notifications(pub))

\* The outer loop taking a subscription that replays the backlog.
handle_notifications_subscribe_replay(h, pub) ==
    [h EXCEPT !.sub = notifications_replay(pub), !.pc = "recv"]

\* async handle_notifications, line 93: the outer loop takes a subscription.
handle_notifications_subscribe(h, pub) ==
    [h EXCEPT !.sub = notifications(pub), !.pc = "recv"]

\* The inner loop with the callback's error discarded.
handle_notifications_recv_ignore(h, log, pub, out) ==
    LET r == recv(h.sub, pub)
    IN  IF r.kind = "Ok"
        THEN [hn |-> [h EXCEPT !.sub = r.sub], log |-> Append(log, Invocation(r, out))]
        ELSE [hn |-> [h EXCEPT !.sub = NoSub, !.pc = "subscribe"], log |-> log]

\* The inner loop with `recv().await?`: a receive error is returned.
handle_notifications_recv_try(h, log, pub, out) ==
    LET r == recv(h.sub, pub)
    IN  IF r.kind = "Ok"
        THEN [hn |-> IF out.ok THEN [h EXCEPT !.sub = r.sub]
                     ELSE [h EXCEPT !.sub = r.sub, !.pc = "returned", !.result = out],
              log |-> Append(log, Invocation(r, out))]
        ELSE [hn |-> [h EXCEPT !.sub = NoSub, !.pc = "returned", !.result = Err(r.kind)],
              log |-> log]

\* The inner loop followed by `Ok(())`: a closed subscription ends the call.
handle_notifications_recv_break(h, log, pub, out) ==
    LET r == recv(h.sub, pub)
    IN  IF r.kind = "Ok"
        THEN [hn |-> IF out.ok THEN [h EXCEPT !.sub = r.sub]
                     ELSE [h EXCEPT !.sub = r.sub, !.pc = "returned", !.result = out],
              log |-> Append(log, Invocation(r, out))]
        ELSE IF r.kind = "Closed"
        THEN [hn |-> [h EXCEPT !.sub = NoSub, !.pc = "returned", !.result = Ok(Unit)],
              log |-> log]
        ELSE [hn |-> [h EXCEPT !.sub = NoSub, !.pc = "subscribe"], log |-> log]

\* async handle_notifications, lines 95-97: one turn of the inner loop.
\* `while let Ok(notification) = recv().await` leaves the inner loop on any
\* Err, Lagged as well as Closed, and the outer loop starts over; `func(..)?`
\* returns the callback's error.
handle_notifications_recv(h, log, pub, out) ==
    LET r == recv(h.sub, pub)
    IN  IF r.kind = "Ok"
        THEN [hn |-> IF out.ok THEN [h EXCEPT !.sub = r.sub]
                     ELSE [h EXCEPT !.sub = r.sub, !.pc = "returned", !.result = out],
              log |-> Append(log, Invocation(r, out))]
        ELSE [hn |-> [h EXCEPT !.sub = NoSub, !.pc = "subscribe"], log |-> log]

\* blocking handle_notifications, line 164, inside the block_on of line
\* 162: the subscription comes from the blocking notifications, a second
\* block_on on the same thread.
blocking_handle_notifications_subscribe(depth, h, pub, nested) ==
    LET b == blocking_notifications(depth, pub)
    IN  IF b.ran THEN [h EXCEPT !.sub = b.out, !.pc = "recv"]
        ELSE [h EXCEPT !.pc = nested]

\* blocking handle_notifications, lines 166-168: one turn of the inner loop.
blocking_handle_notifications_recv(h, log, pub, out) ==
    LET r == recv(h.sub, pub)
    IN  IF r.kind = "Ok"
        THEN [hn |-> IF out.ok THEN [h EXCEPT !.sub = r.sub]
                     ELSE [h EXCEPT !.sub = r.sub, !.pc = "returned", !.result = out],
              log |-> Append(log, Invocation(r, out))]
        ELSE [hn |-> [h EXCEPT !.sub = NoSub, !.pc = "subscribe"], log |-> log]

(***************************************************************************)
(* State.                                                                  *)
(***************************************************************************)
VARIABLES
    keys,        \* keys[s]: the Client's identity (field `keys`)
    contacts,    \* contacts[s]: the Client's contact list (field `contacts`)
    pool,        \* pool[s]: the Client's relay pool (field `pool`)
    last,        \* the last application call: [op, param]
    ret,         \* ret[s]: what the last application call returned
    calls,       \* calls[s]: the relay-pool calls the last application call made
    newArg,      \* the `contacts` argument Client::new was given
    contactLog,  \* the add_contact / remove_contact calls made so far, in order
    published,   \* the notifications the pool has published, in order
    closes,      \* how many times the pool has torn its sender down
    hn,          \* hn[s]: the running handle_notifications call
    cbLog,       \* cbLog[s]: the callback invocations of handle_notifications
    subs         \* subs[s]: the receivers the application got from notifications()

vars == <<keys, contacts, pool, last, ret, calls, newArg, subs, contactLog,
          published, closes, hn, cbLog>>

clientVars == <<keys, contacts, pool>>

NoCall == [op |-> "new", param |-> Unit]

\* RelayPool::new(): no relays, nothing subscribed, nothing sent.  attempted
\* is the set of relays that received a connect attempt in the connect call
\* the application made last.
Urls == {"wss://r1", "wss://r2", "wss://r3"}
RelayPool_new == [relays |-> [u \in Urls |-> "absent"],
                  filters |-> <<>>,
                  sent |-> {},
                  attempted |-> {}]

\* The pool as a connect call finds it: no attempt of this call made yet.
BeforeConnect(p) == [p EXCEPT !.attempted = {}]

\* The depth of block_on on the thread that calls into Client s: the
\* blocking handle_notifications holds the scheduler while it runs.
Depth(s) == IF s = "blocking" /\ hn[s].pc \in {"subscribe", "recv"} THEN 1 ELSE 0

\* No handle_notifications call is in progress: the application is free to
\* make its next call.
AppIdle == \A s \in Surfaces : hn[s].pc \notin {"subscribe", "recv"}

\* Client::new(keys, contacts), lines 23-29, once per build.
Init ==
    /\ \E k \in Identities : keys = [s \in Surfaces |-> k]
    /\ newArg \in {None} \cup {Some(v) : v \in SeqsUpTo(Contacts, MaxInitLen)}
    /\ contacts = [s \in Surfaces |-> new_contacts(newArg)]
    /\ pool = [s \in Surfaces |-> RelayPool_new]
    /\ last = NoCall
    /\ ret = [s \in Surfaces |-> Unit]
    /\ calls = [s \in Surfaces |-> <<>>]
    /\ contactLog = <<>>
    /\ published = <<>>
    /\ closes = 0
    /\ hn = [s \in Surfaces |-> HnIdle]
    /\ cbLog = [s \in Surfaces |-> <<>>]
    /\ subs = [s \in Surfaces |-> <<>>]

\* Clients constructed without contacts or with [A, B].
InitFew == Init /\ newArg \in {None, Some(<<"A", "B">>)}

\* One Client, constructed with [A, B].
InitOne == Init /\ newArg = Some(<<"A", "B">>) /\ keys["async"] = "k1"

(***************************************************************************)
(* Application calls on the contact list.                                  *)
(***************************************************************************)
\* add_contact that also sends the contact list to the relays.
AddContact_publish(c) ==
    /\ AppIdle
    /\ Len(contactLog) < MaxContactOps
    /\ contacts' = [s \in Surfaces |->
                      IF s = "async" THEN add_contact(contacts[s], c)
                      ELSE blocking_add_contact(Depth(s), contacts[s], c)]
    /\ \E e \in {[s \in Surfaces |->
                     [kind |-> "ContactList", pubkey |-> keys[s],
                      ids |-> <<>>, reason |-> None]]} :
          /\ pool' = [s \in Surfaces |-> RelayPool_send_event(pool[s], e[s], Ok(Unit))]
          /\ calls' = [s \in Surfaces |-> <<PoolCall("send_event", e[s])>>]
    /\ last' = [op |-> "add_contact", param |-> [contact |-> c]]
    /\ ret' = [s \in Surfaces |-> Unit]
    /\ contactLog' = Append(contactLog, <<"add", c>>)
    /\ UNCHANGED <<keys, newArg, subs, published, closes, hn, cbLog>>

AddContact(c) ==
    /\ AppIdle
    /\ Len(contactLog) < MaxContactOps
    /\ contacts' = [s \in Surfaces |->
                      IF s = "async" THEN add_contact(contacts[s], c)
                      ELSE blocking_add_contact(Depth(s), contacts[s], c)]
    /\ last' = [op |-> "add_contact", param |-> [contact |-> c]]
    /\ ret' = [s \in Surfaces |-> Unit]
    /\ calls' = [s \in Surfaces |-> <<>>]
    /\ contactLog' = Append(contactLog, <<"add", c>>)
    /\ UNCHANGED <<keys, pool, newArg, subs, published, closes, hn, cbLog>>

RemoveContact(c) ==
    /\ AppIdle
    /\ Len(contactLog) < MaxContactOps
    /\ contacts' = [s \in Surfaces |->
                      IF s = "async" THEN remove_contact(contacts[s], c)
                      ELSE blocking_remove_contact(Depth(s), contacts[s], c)]
    /\ last' = [op |-> "remove_contact", param |-> [contact |-> c]]
    /\ ret' = [s \in Surfaces |-> Unit]
    /\ calls' = [s \in Surfaces |-> <<>>]
    /\ contactLog' = Append(contactLog, <<"remove", c>>)
    /\ UNCHANGED <<keys, pool, newArg, subs, published, closes, hn, cbLog>>

NextContacts ==
    \/ \E c \in Contacts : AddContact(c)
    \/ \E c \in Contacts : RemoveContact(c)

\* The contact list under every sequence of add_contact / remove_contact.
SpecContacts == Init /\ [][NextContacts]_vars

(***************************************************************************)
(* Application calls that send events.                                     *)
(***************************************************************************)
\* Event-id texts handed to delete_event.
NotHex == <<"n", "o", "t", "-", "h", "e", "x">>
DeleteTexts ==
    { Rep(2 * HashLen, "a"),                     \* a digest, lower case
      Rep(HashLen, "0") \o Rep(HashLen, "F"),    \* another digest, upper case
      Rep(2 * HashLen - 1, "a"),                 \* one digit short
      Rep(2 * HashLen - 2, "a"),                 \* one byte short
      Rep(2 * HashLen + 2, "a"),                 \* one byte long
      Rep(2 * HashLen - 1, "a") \o <<"g">>,      \* right length, not hex
      NotHex }

\* Events the application sends itself.
AppEvents == {[kind |-> "TextNote", pubkey |-> "k1", ids |-> <<>>, reason |-> None]}

\* An application call that touches only the pool: each build's Client takes
\* the outcome of its own implementation.
PoolCallFrame(op, arg, asyncOut, blockingOut) ==
    /\ pool' = [s \in Surfaces |-> IF s = "async" THEN asyncOut.pool ELSE blockingOut.pool]
    /\ ret' = [s \in Surfaces |-> IF s = "async" THEN asyncOut.ret ELSE blockingOut.ret]
    /\ calls' = [s \in Surfaces |-> IF s = "async" THEN asyncOut.calls ELSE blockingOut.calls]
    /\ last' = [op |-> op, param |-> arg]
    /\ UNCHANGED <<keys, contacts, newArg, subs, contactLog, published, closes, hn, cbLog>>

SendEvent(event, r) ==
    /\ AppIdle
    /\ \E a \in {send_event(pool["async"], event, r)},
          b \in {blocking_send_event(Depth("blocking"), pool["blocking"], event, r)} :
          PoolCallFrame("send_event", [event |-> event], a, b)

DeleteEvent(text, sign, r) ==
    /\ AppIdle
    /\ \E a \in {delete_event(keys["async"], pool["async"], text, sign, r)},
          b \in {blocking_delete_event(Depth("blocking"), keys["blocking"],
                                       pool["blocking"], text, sign, r)} :
          PoolCallFrame("delete_event", [text |-> text], a, b)

NextEvents ==
    \/ \E e \in AppEvents, r \in PoolResults : SendEvent(e, r)
    \/ \E t \in DeleteTexts, sign \in SignOutcomes, r \in PoolResults :
          DeleteEvent(t, sign, r)

\* The Client under every sequence of send_event / delete_event.
SpecEvents == InitFew /\ [][NextEvents]_vars

(***************************************************************************)
(* Application calls on the relay pool control surface.                    *)
(***************************************************************************)
Proxies == {None, Some("127.0.0.1:9050")}
FilterSets == {<<>>, <<"f1">>}

AddRelay(url, proxy, r) ==
    /\ AppIdle
    /\ \E a \in {add_relay(pool["async"], url, proxy, r)},
          b \in {blocking_add_relay(Depth("blocking"), pool["blocking"], url, proxy, r)} :
          PoolCallFrame("add_relay", [url |-> url, proxy |-> proxy], a, b)

RemoveRelay(url, r) ==
    /\ AppIdle
    /\ \E a \in {remove_relay(pool["async"], url, r)},
          b \in {blocking_remove_relay(Depth("blocking"), pool["blocking"], url, r)} :
          PoolCallFrame("remove_relay", [url |-> url], a, b)

ConnectRelay(url, r) ==
    /\ AppIdle
    /\ \E a \in {connect_relay(BeforeConnect(pool["async"]), url, r)},
          b \in {blocking_connect_relay(Depth("blocking"),
                                        BeforeConnect(pool["blocking"]), url, r)} :
          PoolCallFrame("connect_relay", [url |-> url], a, b)

DisconnectRelay(url, r) ==
    /\ AppIdle
    /\ \E a \in {disconnect_relay(pool["async"], url, r)},
          b \in {blocking_disconnect_relay(Depth("blocking"), pool["blocking"], url, r)} :
          PoolCallFrame("disconnect_relay", [url |-> url], a, b)

ConnectAll(r) ==
    /\ AppIdle
    /\ \E a \in {connect_all(BeforeConnect(pool["async"]), r)},
          b \in {blocking_connect_all(Depth("blocking"),
                                      BeforeConnect(pool["blocking"]), r)} :
          PoolCallFrame("connect_all", Unit, a, b)

Subscribe(filters, r) ==
    /\ AppIdle
    /\ \E a \in {subscribe(pool["async"], filters, r)},
          b \in {blocking_subscribe(Depth("blocking"), pool["blocking"], filters, r)} :
          PoolCallFrame("subscribe", [filters |-> filters], a, b)

NextRelays ==
    \/ \E u \in Urls, x \in Proxies, r \in PoolResults : AddRelay(u, x, r)
    \/ \E u \in Urls, r \in PoolResults : RemoveRelay(u, r)
    \/ \E u \in Urls, r \in PoolResults : ConnectRelay(u, r)
    \/ \E u \in Urls, r \in PoolResults : DisconnectRelay(u, r)
    \/ \E r \in PoolResults : ConnectAll(r)
    \/ \E f \in FilterSets, r \in PoolResults : Subscribe(f, r)
    \/ \E e \in AppEvents, r \in PoolResults : SendEvent(e, r)

\* The Client under every sequence of relay pool control calls.
SpecRelays == InitOne /\ [][NextRelays]_vars

(***************************************************************************)
(* The notification loop and the pool's publisher.                         *)
(***************************************************************************)
\* A receiver the application holds: the publish position at which it was
\* obtained, the receiver, what it has received, and whether a receive
\* reported Lagged.
Held(born, rx) == [born |-> born, rx |-> rx, got |-> <<>>, lagged |-> FALSE]

\* The application calls recv on a receiver it holds.
app_recv(u, pub) ==
    LET r == recv(u.rx, pub)
    IN  IF r.kind = "Ok"
        THEN [u EXCEPT !.rx = r.sub,
                       !.got = Append(@, [pos |-> r.pos, value |-> r.value])]
        ELSE [u EXCEPT !.rx = r.sub, !.lagged = TRUE]

\* The application calls notifications(): each build hands back a fresh
\* receiver, which the application keeps.
NotificationsCall ==
    /\ AppIdle
    /\ \A s \in Surfaces : Len(subs[s]) < Cardinality(Receivers)
    /\ \E a \in {notifications(published)},
          b \in {blocking_notifications(Depth("blocking"), published)} :
          /\ ret' = [s \in Surfaces |->
                       IF s = "async" THEN a
                       ELSE IF b.ran THEN b.out ELSE [stuck |-> TRUE]]
          /\ calls' = [s \in Surfaces |->
                         IF s = "async" \/ b.ran
                         THEN <<PoolCall("notifications", Unit)>> ELSE <<>>]
          /\ subs' = [s \in Surfaces |->
                        IF s = "async" THEN Append(subs[s], Held(Len(published), a))
                        ELSE IF b.ran THEN Append(subs[s], Held(Len(published), b.out))
                        ELSE subs[s]]
    /\ last' = [op |-> "notifications", param |-> Unit]
    /\ UNCHANGED <<keys, contacts, pool, newArg, contactLog, published, closes,
                   hn, cbLog>>

\* The application calls handle_notifications(func).
HandleNotifications ==
    /\ \A s \in Surfaces : hn[s].pc = "idle"
    /\ hn' = [s \in Surfaces |-> [hn[s] EXCEPT !.pc = "subscribe"]]
    /\ last' = [op |-> "handle_notifications", param |-> Unit]
    /\ ret' = [s \in Surfaces |-> Pending]
    /\ calls' = [s \in Surfaces |-> <<>>]
    /\ UNCHANGED <<keys, contacts, pool, newArg, subs, contactLog, published, closes, cbLog>>

\* Each running loop that stands at the top of the outer loop takes its
\* subscription.
HNSubscribe(nested) ==
    /\ \E s \in Surfaces : hn[s].pc = "subscribe"
    /\ hn' = [s \in Surfaces |->
                IF hn[s].pc # "subscribe" THEN hn[s]
                ELSE IF s = "async"
                     THEN handle_notifications_subscribe(hn[s], published)
                     ELSE blocking_handle_notifications_subscribe(
                              Depth(s), hn[s], published, nested)]
    /\ calls' = [s \in Surfaces |->
                   IF hn'[s].pc = "recv" /\ hn[s].pc = "subscribe"
                   THEN Append(calls[s], PoolCall("notifications", Unit))
                   ELSE calls[s]]
    /\ UNCHANGED <<keys, contacts, pool, last, ret, newArg, subs, contactLog,
                   published, closes, cbLog>>

\* Client s's loop can take a turn: its receive does not wait.
CanRecv(s) == hn[s].pc = "recv" /\ recv(hn[s].sub, published).kind # "Wait"

\* Each running loop whose receive completes takes one turn of the inner
\* loop; the callback answers out.
HNRecv(out) ==
    /\ \E s \in Surfaces : CanRecv(s)
    /\ \E a \in {IF ~CanRecv("async")
                   THEN [hn |-> hn["async"], log |-> cbLog["async"]]
                   ELSE handle_notifications_recv(hn["async"], cbLog["async"],
                                                  published, out)},
          b \in {IF ~CanRecv("blocking")
                   THEN [hn |-> hn["blocking"], log |-> cbLog["blocking"]]
                   ELSE blocking_handle_notifications_recv(
                            hn["blocking"], cbLog["blocking"], published, out)} :
          LET step == [s \in Surfaces |-> IF s = "async" THEN a ELSE b]
          IN  /\ hn' = [s \in Surfaces |-> step[s].hn]
              /\ cbLog' = [s \in Surfaces |-> step[s].log]
              /\ ret' = [s \in Surfaces |->
                           IF step[s].hn.pc = "returned" THEN step[s].hn.result
                           ELSE ret[s]]
    /\ UNCHANGED <<keys, contacts, pool, last, calls, newArg, subs, contactLog,
                   published, closes>>

\* The pool publishes a notification.
Publish(n) ==
    /\ Len(published) < MaxPublish
    /\ published' = Append(published, n)
    /\ UNCHANGED <<keys, contacts, pool, last, ret, calls, newArg, subs, contactLog,
                   closes, hn, cbLog>>

\* The pool tears its notification sender down: every live receiver is
\* closed at the current position.
PoolTeardown ==
    /\ closes < MaxClose
    /\ closes' = closes + 1
    /\ hn' = [s \in Surfaces |->
                IF hn[s].pc = "recv" /\ hn[s].sub.end = -1
                THEN [hn[s] EXCEPT !.sub.end = Len(published)]
                ELSE hn[s]]
    /\ subs' = [s \in Surfaces |->
                  [i \in DOMAIN subs[s] |->
                      IF subs[s][i].rx.end = -1
                      THEN [subs[s][i] EXCEPT !.rx.end = Len(published)]
                      ELSE subs[s][i]]]
    /\ UNCHANGED <<keys, contacts, pool, last, ret, calls, newArg, contactLog,
                   published, cbLog>>

NextNotify ==
    \/ HandleNotifications
    \/ \E nested \in NestedOutcomes : HNSubscribe(nested)
    \/ \E out \in CallbackResults : HNRecv(out)
    \/ \E n \in NotificationValues : Publish(n)
    \/ PoolTeardown

\* The Client under handle_notifications, the pool publishing meanwhile.
SpecNotify == InitFew /\ [][NextNotify]_vars

(***************************************************************************)
(* The application's own subscriptions.                                    *)
(***************************************************************************)
\* The application's i-th receiver on Client s has something to hand over.
CanAppRecv(s, i) ==
    /\ i \in DOMAIN subs[s]
    /\ recv(subs[s][i].rx, published).kind \in {"Ok", "Lagged"}

\* The application receives on its i-th receiver.
AppRecv(i) ==
    /\ \E s \in Surfaces : CanAppRecv(s, i)
    /\ subs' = [s \in Surfaces |->
                  IF ~CanAppRecv(s, i) THEN subs[s]
                  ELSE [subs[s] EXCEPT ![i] = app_recv(@, published)]]
    /\ UNCHANGED <<keys, contacts, pool, last, ret, calls, newArg, contactLog,
                   published, closes, hn, cbLog>>

NextSubs ==
    \/ NotificationsCall
    \/ \E i \in Receivers : AppRecv(i)
    \/ \E n \in NotificationValues : Publish(n)
    \/ PoolTeardown

\* The Client handing out receivers, the pool publishing meanwhile.
SpecSubs == InitOne /\ [][NextSubs]_vars

(***************************************************************************)
(* The whole Client: every application call, the loop and the publisher.   *)
(* SpecContacts, SpecEvents, SpecRelays, SpecNotify and SpecSubs each take *)
(* the actions of one component; every behaviour of one of them is a       *)
(* behaviour of Spec.                                                      *)
(***************************************************************************)
Next ==
    \/ NextContacts
    \/ NextEvents
    \/ NextRelays
    \/ NextNotify
    \/ NextSubs

Spec == Init /\ [][Next]_vars

(***************************************************************************)
(* One application session: the calls of all components on one Client.     *)
(* The application first edits its contact list, and then either sets up   *)
(* its relays and sends events, or takes receivers and then runs           *)
(* handle_notifications.                                                   *)
(***************************************************************************)
ContactOps == {"add_contact", "remove_contact"}
RelayOps == {"add_relay", "remove_relay", "connect_relay", "disconnect_relay",
             "connect_all", "subscribe"}
EventOps == {"send_event", "delete_event"}
NotifyOps == {"notifications", "handle_notifications"}

\* The session has not gone past the calls in ops.
Within(ops) == last.op \in {"new"} \cup ops

SessionContacts == {"A", "C"}
SessionUrl == "wss://r1"
SessionTexts == {Rep(2 * HashLen, "a"), NotHex}
SessionCallbackResults == {Ok(Unit), Err("E1")}

NextSession ==
    \/ /\ Within(ContactOps)
       /\ Len(contactLog) < MaxSessionContactOps
       /\ \E c \in SessionContacts : AddContact(c) \/ RemoveContact(c)
    \/ /\ Within(ContactOps \cup RelayOps)
       /\ \E r \in PoolResults :
             \/ AddRelay(SessionUrl, None, r)
             \/ RemoveRelay(SessionUrl, r)
             \/ ConnectRelay(SessionUrl, r)
             \/ DisconnectRelay(SessionUrl, r)
             \/ ConnectAll(r)
             \/ Subscribe(<<"f1">>, r)
    \/ /\ Within(ContactOps \cup RelayOps \cup EventOps)
       /\ \E r \in PoolResults :
             \/ \E e \in AppEvents : SendEvent(e, r)
             \/ \E t \in SessionTexts, sign \in SignOutcomes : DeleteEvent(t, sign, r)
    \/ /\ Within(ContactOps \cup {"notifications"})
       /\ NotificationsCall \/ HandleNotifications
    \/ /\ last.op = "handle_notifications"
       /\ \/ \E nested \in NestedOutcomes : HNSubscribe(nested)
          \/ \E out \in SessionCallbackResults : HNRecv(out)
          \/ Publish("n1")
          \/ PoolTeardown

\* The Client over one session.
SpecSession == InitOne /\ [][NextSession]_vars

(***************************************************************************)
(* Properties of the contact list.                                         *)
(***************************************************************************)
NoDuplicates(cs) == \A i, j \in DOMAIN cs : i # j => cs[i] # cs[j]

\* The arguments of the calls recorded in the log.
LogArgs == [i \in DOMAIN contactLog |-> contactLog[i][2]]

OnlyAdds == \A i \in DOMAIN contactLog : contactLog[i][1] = "add"

\* The position of the first occurrence of x in seq.
FirstPos(seq, x) ==
    CHOOSE i \in DOMAIN seq : seq[i] = x /\ \A j \in 1..(i - 1) : seq[j] # x

\* cs holds exactly the distinct values of seq, ordered by first occurrence.
IsFirstInsertionOrder(cs, seq) ==
    /\ NoDuplicates(cs)
    /\ Range(cs) = Range(seq)
    /\ \A i, j \in DOMAIN cs :
          i < j => FirstPos(seq, cs[i]) < FirstPos(seq, cs[j])

\* C1: a Client constructed with no initial contacts holds, after any
\* sequence of add_contact calls, a contact list without equal elements
\* whose elements are in the order in which each distinct value was first
\* added (both builds).
C1_AddsKeepFirstInsertionOrder ==
    (new_contacts(newArg) = <<>> /\ OnlyAdds) =>
        \A s \in Surfaces : IsFirstInsertionOrder(contacts[s], LogArgs)

\* C1 witness: B, A, B added to an empty Client leaves [B, A].
C1_Witness ==
    /\ newArg = None
    /\ contactLog = << <<"add", "B">>, <<"add", "A">>, <<"add", "B">> >>
    /\ contacts["async"] = <<"B", "A">>

\* C6 (as claimed): in every reachable state, whatever Client::new was
\* given, the contact list holds no two equal elements.
C6_ContactListDuplicateFree ==
    \A s \in Surfaces : NoDuplicates(contacts[s])

\* C7: remove_contact(c) on a contact list holding no element equal to c
\* leaves the list unchanged, same elements in the same order (both builds).
C7_RemoveAbsentIsNoOp ==
    [][\A c \in Contacts : \A s \in Surfaces :
          (RemoveContact(c) /\ ~contains(contacts[s], c))
              => contacts'[s] = contacts[s]]_vars

\* C7 witness: the only call so far removed a contact the non-empty initial
\* list does not hold.
C7_Witness ==
    /\ Len(contactLog) = 1
    /\ contactLog[1][1] = "remove"
    /\ newArg.some
    /\ newArg.val # <<>>
    /\ ~contains(newArg.val, contactLog[1][2])
    /\ contacts["async"] = newArg.val

\* C8: add_contact is idempotent: a second add_contact(c) right after an
\* add_contact(c) leaves the Client (contacts, identity, pool) as the first
\* one left it.
C8_AddContactIdempotent ==
    [][\A c \in Contacts :
          (/\ AddContact(c)
           /\ contactLog # <<>>
           /\ contactLog[Len(contactLog)] = <<"add", c>>)
              => UNCHANGED clientVars]_vars

\* C8 witness: add_contact(A) twice on a Client created with [B].
C8_Witness ==
    /\ newArg = Some(<<"B">>)
    /\ contactLog = << <<"add", "A">>, <<"add", "A">> >>
    /\ contacts["async"] = <<"B", "A">>

(***************************************************************************)
(* Properties of event deletion.                                           *)
(***************************************************************************)
\* The text is the hex form of a 32-byte digest.
IsDigestText(text) ==
    /\ Len(text) = 2 * HashLen
    /\ \A i \in DOMAIN text : text[i] \in HexChars

ParseErrors == {"OddLengthString", "InvalidLength", "InvalidChar"}

\* C4: delete_event with a text that is not the hex form of a 32-byte
\* digest returns a parse error, makes no send_event call (no relay-pool
\* call at all), and leaves the pool and the contact list unchanged.
C4_DeleteEventBadTextParseError ==
    [][\A sign \in SignOutcomes, r \in PoolResults :
          (/\ last'.op = "delete_event"
           /\ ~IsDigestText(last'.param.text)
           /\ DeleteEvent(last'.param.text, sign, r))
              => /\ \A s \in Surfaces :
                      /\ ~ret'[s].ok
                      /\ ret'[s].err \in ParseErrors
                      /\ calls'[s] = <<>>
                 /\ UNCHANGED <<pool, contacts>>]_vars

\* C4 witness: delete_event("not-hex") on a pool that has sent an event.
C4_Witness ==
    /\ last.op = "delete_event"
    /\ last.param.text = NotHex
    /\ \A s \in Surfaces : ~ret[s].ok /\ calls[s] = <<>>
    /\ pool["async"].sent # {}

\* The deletion event delete_event is to submit for a digest text.
DeletionOf(k, text) ==
    [kind |-> "EventDeletion", pubkey |-> k,
     ids |-> <<Hash_from_str(text).val>>, reason |-> None]

\* C9: delete_event with a text that decodes to an event id makes, when the
\* event is built, exactly one send_event call carrying a deletion event by
\* the Client's own identity that references that one id with no reason,
\* and returns what send_event returned; when building fails it returns
\* that failure and calls nothing.
C9_DeleteEventSendsOneDeletion ==
    [][\A sign \in SignOutcomes, r \in PoolResults :
          (/\ last'.op = "delete_event"
           /\ IsDigestText(last'.param.text)
           /\ DeleteEvent(last'.param.text, sign, r))
              => \A s \in Surfaces :
                    IF sign = "signed"
                    THEN /\ calls'[s] = <<PoolCall("send_event",
                                                   DeletionOf(keys[s], last'.param.text))>>
                         /\ ret'[s] = r
                    ELSE /\ calls'[s] = <<>>
                         /\ ret'[s] = Err(sign)]_vars

\* C9 witness: a valid upper-case id (sixteen 00 bytes, sixteen ff bytes),
\* the event built and sent, and the pool's error handed back.
C9_Witness ==
    /\ last.op = "delete_event"
    /\ last.param.text = Rep(HashLen, "0") \o Rep(HashLen, "F")
    /\ ret["async"] = Err("ProtocolError")
    /\ Len(calls["async"]) = 1
    /\ calls["async"][1].param.ids =
          <<[i \in 1..HashLen |-> IF 2 * i <= HashLen THEN 0 ELSE 255]>>

(***************************************************************************)
(* Properties of the notification loop.                                    *)
(***************************************************************************)
\* Every invocation before the last answered Ok.
EarlierAllOk(log) == \A i \in 1..(Len(log) - 1) : log[i].out.ok

\* No notification (publish position) was passed to the callback twice.
EachOnce(log) == \A i, j \in DOMAIN log : i # j => log[i].pos # log[j].pos

\* The loop has returned exactly when the last callback invocation failed,
\* and its result is that invocation's error.
ReturnedCallbackError(s) ==
    LET log == cbLog[s]
        failed == log # <<>> /\ ~log[Len(log)].out.ok
    IN  /\ (hn[s].pc = "returned") <=> failed
        /\ failed => hn[s].result = log[Len(log)].out
        /\ EarlierAllOk(log)
        /\ EachOnce(log)

\* C2: when the callback fails on the k-th notification, the async
\* handle_notifications returns at once with that same error; the k-1
\* earlier notifications were each passed to the callback exactly once, and
\* after the failure the loop neither invokes the callback nor takes a
\* subscription again.
C2_CallbackErrorEndsLoop ==
    [][/\ ReturnedCallbackError("async")
       /\ ReturnedCallbackError("async")'
       /\ (hn["async"].pc # "returned" /\ hn'["async"].pc = "returned")
             => ret'["async"] = hn'["async"].result
       /\ hn["async"].pc = "returned"
             => UNCHANGED <<hn["async"], cbLog["async"]>>]_vars

\* C2 witness: the callback answered Ok on the first notification and E2 on
\* the second; the loop returned E2.
C2_Witness ==
    /\ hn["async"].pc = "returned"
    /\ Len(cbLog["async"]) = 2
    /\ cbLog["async"][1].out = Ok(Unit)
    /\ cbLog["async"][2].out = Err("E2")
    /\ ret["async"] = Err("E2")

\* C3 (as claimed): a receive that reports Lagged does not end the inner
\* loop of the async handle_notifications: the loop goes on receiving on
\* the same subscription, which stands at the oldest retained notification.
C3_LaggedKeepsSubscription ==
    [][\A out \in CallbackResults :
          (/\ HNRecv(out)
           /\ hn["async"].pc = "recv"
           /\ recv(hn["async"].sub, published).kind = "Lagged")
              => /\ hn'["async"].pc = "recv"
                 /\ hn'["async"].sub = recv(hn["async"].sub, published).sub]_vars

\* The outcome of the calls made so far, as the application observes it.
Observable(s) ==
    [contacts |-> contacts[s], pool |-> pool[s], ret |-> ret[s],
     calls |-> calls[s], callbacks |-> cbLog[s],
     returned |-> hn[s].pc = "returned",
     running |-> hn[s].pc \in {"subscribe", "recv"}]

\* C5 (as claimed): after the same sequence of calls the blocking build and
\* the async build have returned the same values and errors and hold the
\* same contact list and pool state.
C5_SurfacesEquivalent == Observable("async") = Observable("blocking")

\* C10: when the subscription of handle_notifications is closed by the
\* pool, the inner loop ends without the call returning, the outer loop
\* takes a fresh subscription positioned at what the pool has published so
\* far, and a notification received on it is passed to the callback.
C10_ClosedResubscribes ==
    [][/\ \A out \in CallbackResults :
             (/\ HNRecv(out)
              /\ hn["async"].pc = "recv"
              /\ recv(hn["async"].sub, published).kind = "Closed")
                 => /\ hn'["async"].pc = "subscribe"
                    /\ hn'["async"].result = Pending
                    /\ ret'["async"] = Pending
                    /\ cbLog'["async"] = cbLog["async"]
       /\ \A nested \in NestedOutcomes :
             (HNSubscribe(nested) /\ hn["async"].pc = "subscribe")
                 => /\ hn'["async"].pc = "recv"
                    /\ hn'["async"].sub = [start |-> Len(published),
                                           next |-> Len(published), end |-> -1]
                    /\ calls'["async"] =
                          Append(calls["async"], PoolCall("notifications", Unit))
       /\ \A out \in CallbackResults :
             (/\ HNRecv(out)
              /\ hn["async"].pc = "recv"
              /\ recv(hn["async"].sub, published).kind = "Ok")
                 => cbLog'["async"] =
                       Append(cbLog["async"],
                              [pos |-> hn["async"].sub.next + 1,
                               value |-> published[hn["async"].sub.next + 1],
                               out |-> out])]_vars

\* C10 witness: no receive can have lagged, the pool closed the first
\* subscription, the loop took a second one and passed the callback a
\* notification published after it.
C10_Witness ==
    /\ Len(published) <= ChanCap
    /\ closes = 1
    /\ Len(calls["async"]) = 2
    /\ hn["async"].pc = "recv"
    /\ cbLog["async"] # <<>>
    /\ cbLog["async"][Len(cbLog["async"])].pos > hn["async"].sub.start

(***************************************************************************)
(* Properties of the application's own subscriptions.                      *)
(***************************************************************************)
\* The positions a receiver obtained at born can be handed: those published
\* after it was obtained and before its sender was torn down.
Deliverable(u) == (u.born + 1)..tail_of(u.rx, published)

\* What u has received is in publish order, each notification at most once,
\* each one published after u was obtained; and while no receive has
\* reported Lagged, none was skipped and the next one is there to receive.
ReceivedInOrder(u) ==
    /\ \A k \in DOMAIN u.got :
          /\ u.got[k].pos \in Deliverable(u)
          /\ u.got[k].value = published[u.got[k].pos]
    /\ \A k, l \in DOMAIN u.got : k < l => u.got[k].pos < u.got[l].pos
    /\ ~u.lagged =>
          /\ \A k \in DOMAIN u.got : u.got[k].pos = u.born + k
          /\ u.born + Len(u.got) \in Deliverable(u) \cup {u.born}
          /\ (u.born + Len(u.got) + 1 \in Deliverable(u))
                => recv(u.rx, published).kind \in {"Ok", "Lagged"}

NotConnected(p) == {u \in DOMAIN p.relays : p.relays[u] = "disconnected"}

Connected(p) == {u \in DOMAIN p.relays : p.relays[u] = "connected"}

\* C12: connect_all makes a connect attempt to every relay the pool knows
\* that is not connected and to no relay that is connected, whichever calls
\* brought the relays to their states (both builds).
C12_ConnectAllAttemptsNotConnected ==
    [][\A r \in PoolResults :
          ConnectAll(r) =>
             \A s \in Surfaces :
                /\ pool'[s].attempted = NotConnected(pool[s])
                /\ pool'[s].attempted \cap Connected(pool[s]) = {}]_vars

\* C12 witness: connect_all on a pool with two relays connected and one
\* disconnected: only the disconnected one received an attempt, and all
\* three are connected.
C12_Witness ==
    /\ last.op = "connect_all"
    /\ \A s \in Surfaces :
          /\ pool[s].attempted = {"wss://r3"}
          /\ Connected(pool[s]) = Urls
          /\ ret[s] = Ok(Unit)

\* The call made exactly one relay-pool call, fn with arg, and returned r.
Delegated(s, fn, arg, r) ==
    /\ calls'[s] = <<PoolCall(fn, arg)>>
    /\ ret'[s] = r

\* C13: each of add_relay, remove_relay, connect_relay, disconnect_relay,
\* connect_all, subscribe and send_event makes exactly one call of the
\* relay-pool operation of the same name, with the caller's arguments, and
\* returns what the pool answered, Ok or error, as it is (both builds).
C13_RelayOpsPassThrough ==
    [][\A s \in Surfaces, r \in PoolResults :
          LET op == last'.op
              arg == last'.param
          IN  CASE op = "add_relay" ->
                     AddRelay(arg.url, arg.proxy, r) => Delegated(s, "add_relay", arg, r)
                [] op = "remove_relay" ->
                     RemoveRelay(arg.url, r) => Delegated(s, "remove_relay", arg, r)
                [] op = "connect_relay" ->
                     ConnectRelay(arg.url, r) => Delegated(s, "connect_relay", arg, r)
                [] op = "disconnect_relay" ->
                     DisconnectRelay(arg.url, r) => Delegated(s, "disconnect_relay", arg, r)
                [] op = "connect_all" ->
                     ConnectAll(r) => Delegated(s, "connect_all", Unit, r)
                [] op = "subscribe" ->
                     Subscribe(arg.filters, r) => Delegated(s, "subscribe", arg, r)
                [] op = "send_event" ->
                     SendEvent(arg.event, r) => Delegated(s, "send_event", arg.event, r)
                [] OTHER -> TRUE]_vars

\* C13 witness: remove_relay of a connected relay answered with an error:
\* one pool call, the error returned, the relay still connected.
C13_Witness ==
    /\ last = [op |-> "remove_relay", param |-> [url |-> "wss://r2"]]
    /\ \A s \in Surfaces :
          /\ ret[s] = Err("ProtocolError")
          /\ calls[s] = <<PoolCall("remove_relay", [url |-> "wss://r2"])>>
          /\ pool[s].relays["wss://r2"] = "connected"

(***************************************************************************)
(* Properties of the blocking build's use of the shared scheduler.         *)
(***************************************************************************)
\* C14 (as claimed): the blocking handle_notifications obtains its
\* subscription without a block_on entered inside the scheduler: when its
\* loop takes a subscription no block_on is running on its thread other
\* than the one about to be entered, and the subscription is obtained.
C14_NoNestedBlockOn ==
    [][\A nested \in NestedOutcomes :
          (HNSubscribe(nested) /\ hn["blocking"].pc = "subscribe")
             => /\ Depth("blocking") = 0
                /\ hn'["blocking"].pc = "recv"
                /\ hn'["blocking"].sub = RelayPool_notifications(published)]_vars

(***************************************************************************)
(* Properties of remove_contact on lists that hold equal elements.         *)
(***************************************************************************)
\* How many elements of cs equal x.
Count(cs, x) == Cardinality({i \in DOMAIN cs : cs[i] = x})

\* cs with every element equal to c taken out, the rest in place.
RECURSIVE Without(_, _)
Without(cs, c) ==
    IF cs = <<>> THEN <<>>
    ELSE IF Head(cs) = c THEN Without(Tail(cs), c)
    ELSE <<Head(cs)>> \o Without(Tail(cs), c)

\* C15: remove_contact(c) leaves a contact list with no element equal to c
\* in which every other element is kept, once per occurrence and in its
\* original relative order, also when the list held several elements equal
\* to c (both builds).
C15_RemoveContactRemovesAll ==
    [][\A c \in Contacts :
          RemoveContact(c) =>
             \A s \in Surfaces :
                /\ ~contains(contacts'[s], c)
                /\ \A x \in Contacts \ {c} :
                      Count(contacts'[s], x) = Count(contacts[s], x)
                /\ contacts'[s] = Without(contacts[s], c)]_vars

\* C15 witness: remove_contact(A) on a Client created with [A, B, A]
\* leaves [B].
C15_Witness ==
    /\ newArg = Some(<<"A", "B", "A">>)
    /\ contactLog = << <<"remove", "A">> >>
    /\ \A s \in Surfaces : contacts[s] = <<"B">>

(***************************************************************************)
(* Properties of how handle_notifications ends.                            *)
(***************************************************************************)
\* The call has returned, and what it returned is the error the callback
\* answered in its last invocation.
ReturnedLastCallbackError(h, log) ==
    /\ ~h.result.ok
    /\ log # <<>>
    /\ h.result = log[Len(log)].out

\* C16: handle_notifications never returns a success value: a call that has
\* returned returned the error of a callback invocation, a call that has
\* not returned has no result, and a receive that reports Closed or Lagged
\* sends the loop back to take a subscription instead of returning (both
\* builds).
C16_NeverReturnsSuccess ==
    [][\A s \in Surfaces :
          /\ IF hn'[s].pc = "returned"
             THEN ReturnedLastCallbackError(hn'[s], cbLog'[s])
             ELSE hn'[s].result = Pending
          /\ \A out \in CallbackResults :
                (/\ HNRecv(out)
                 /\ hn[s].pc = "recv"
                 /\ recv(hn[s].sub, published).kind \in {"Closed", "Lagged"})
                    => /\ hn'[s].pc = "subscribe"
                       /\ ret'[s] = Pending]_vars

\* C16 witness: the async loop has been through a lagged receive and a
\* closed subscription, has taken its third subscription and is still
\* running, with no result.
C16_Witness ==
    /\ closes = 1
    /\ Len(published) > ChanCap
    /\ Len(calls["async"]) = 3
    /\ hn["async"].pc = "recv"
    /\ hn["async"].result = Pending
    /\ ret["async"] = Pending

\* C17: across one run of handle_notifications, re-subscriptions included,
\* the callback is invoked at most once for each notification the pool
\* published and in publish order: each invocation is for a published
\* notification, at a later publish position than every invocation before
\* it (both builds).
C17_CallbackOncePerNotificationInOrder ==
    \A s \in Surfaces :
       /\ \A i \in DOMAIN cbLog[s] :
             /\ cbLog[s][i].pos \in DOMAIN published
             /\ cbLog[s][i].value = published[cbLog[s][i].pos]
       /\ \A i, j \in DOMAIN cbLog[s] :
             i < j => cbLog[s][i].pos < cbLog[s][j].pos

\* C17 witness: the callback was invoked for a notification received on
\* one subscription and, after a re-subscription, for a later one received
\* on the next subscription.
C17_Witness ==
    /\ Len(calls["async"]) >= 2
    /\ Len(cbLog["async"]) >= 2
    /\ hn["async"].pc = "recv"
    /\ cbLog["async"][1].pos <= hn["async"].sub.start
    /\ cbLog["async"][Len(cbLog["async"])].pos > hn["async"].sub.start

(***************************************************************************)
(* Frame properties over a session.                                        *)
(***************************************************************************)
\* The step is an add_contact or a remove_contact call.
ContactCall == \E c \in Contacts : AddContact(c) \/ RemoveContact(c)

\* C18: the Client's identity never changes after construction; the
\* contact list changes only in add_contact and remove_contact, so every
\* relay operation, send_event, delete_event (succeeding or failing),
\* notifications and handle_notifications leaves it as it was; and
\* add_contact / remove_contact make no relay-pool call and leave the pool
\* as it was (both builds).
C18_ContactsAndIdentityFrame ==
    [][/\ keys' = keys
       /\ contacts' # contacts => ContactCall
       /\ last'.op \in RelayOps \cup EventOps \cup NotifyOps => contacts' = contacts
       /\ ContactCall =>
             \A s \in Surfaces : calls'[s] = <<>> /\ pool'[s] = pool[s]]_vars

\* C18 witness: after add_contact(C) on a Client created with [A, B], a
\* relay was added and connected and delete_event sent its deletion: the
\* contact list is still [A, B, C] and the identity the one given to new.
C18_Witness ==
    /\ contactLog = << <<"add", "C">> >>
    /\ last.op = "delete_event"
    /\ \A s \in Surfaces :
          /\ ret[s] = Ok(Unit)
          /\ pool[s].relays[SessionUrl] = "connected"
          /\ pool[s].sent # {}
          /\ contacts[s] = <<"A", "B", "C">>
          /\ keys[s] = "k1"

====
